---- MODULE Spec2Model ----
(***************************************************************************)
(* Model of euporie's notebook commands (commands/notebook.py) and of the *)
(* kernel tab (core/tabs/base.py): the cell-selection commands, the comm  *)
(* registry of a KernelTab and the confirmation-gated kernel restart.     *)
(*                                                                         *)
(* A Python slice(start, stop, step) is the record                        *)
(* [start |-> , stop |-> , step |-> ] where step 0 stands for step None.  *)
(***************************************************************************)
EXTENDS Integers, Sequences, FiniteSets, TLC

\* ------------------------------------------------------------------ bounds
MaxCells == 10
MaxOver == 5
MaxRun == 5
MaxOpens == 3
MaxMsgs == 2
MaxRequests == 4

VARIABLES
    \* selection state machine
    num_cells,        \* len(nb.page.children)
    notebook,         \* TRUE iff get_app().notebook is not None
    selected_slice,   \* nb.page._selected_slice
    last_cmd,         \* the command invoked last
    prev_slice,       \* the slice before the last command
    prev_cmd,         \* the command invoked before the last one
    prev2_slice,      \* the slice before prev_cmd
    run_base,         \* the slice before the current run of last_cmd
    run_len,          \* how many times in a row last_cmd has been applied
    run_flips,        \* how many of these took the anchor-flip branch
    \* comm registry of a KernelTab
    comms,            \* self.comms: registry key -> comm instance
    comm_count,       \* how many comm instances open_comm has constructed
    received,         \* comm instance -> how many process_data calls it got
    raised,           \* TRUE iff the last comm handler raised
    prev_comms,       \* self.comms before the last comm handler
    comm_log,         \* the last three comm handler calls
    \* kernel restart of a KernelTab
    confirm_available,\* TRUE iff app.dialogs has a "confirm" dialog
    dialog_open,      \* TRUE iff the confirm dialog is shown, cb pending
    requests,         \* calls of KernelTab.restart_kernel
    shown,            \* calls of confirm.show
    confirmed,        \* times the user confirmed the dialog
    restarts,         \* calls of kernel.restart
    interrupts,       \* calls of kernel.interrupt
    \* dispatch of the notebook commands
    kernel_tab,       \* TRUE iff get_app().tab is a KernelTab
    last_call,        \* the notebook method the last command called
    cmd_error,        \* TRUE iff the last command raised
    cmd_count,        \* commands invoked so far
    \* KernelTab.change_kernel
    no_kernels_dialog,\* TRUE iff "no-kernels" is a key of app.dialogs
    change_kernel_dialog, \* TRUE iff "change-kernel" is a key of app.dialogs
    kernel_current,   \* the spec last passed to kernel.change ("none": none)
    surface_specs,    \* the specs the change-kernel dialog shows ({}: closed)
    notices,          \* calls of the no-kernels dialog's show
    ck_calls,         \* calls of KernelTab.change_kernel
    ck_event,         \* what the last change_kernel call did
    \* KernelTab.metadata and kernel_name
    metadata,         \* the tab's metadata: top-level key -> dict
    default_kernel_name, \* app.config.default_kernel_name
    md_prev,          \* the metadata before the last operation
    md_op,            \* the last operation on the metadata
    md_value,         \* the value the last operation was given
    md_count,         \* operations on the metadata so far
    \* the log queue and QueueHandler
    maxlen,           \* the capacity of the queue (deque maxlen)
    queue,            \* the records in the queue, oldest first
    emitted,          \* records emitted so far; record k is the k-th emitted
    hooks,            \* QueueHandler.hooks: hook id -> hook object
    hook_id,          \* QueueHandler.hook_id: the next id to hand out
    invoked,          \* the hook calls of the last emit, in call order
    emit_raised,      \* the exception the last emit ended with, or "none"
    log_op,           \* the last operation on the handler
    \* the kernel session's request/reply correlation
    pending,          \* in-flight request id -> its registered callback
    next_request,     \* the id the next request gets
    fired,            \* request id sent -> invocations of its callback
    replied,          \* the sent ids a reply has been delivered for
    deliveries,       \* replies delivered so far
    reply_event,      \* what the last delivery did
    \* wait_for_status and the preview render loop
    status,           \* the session's status
    wait_pc,          \* where the render loop is
    waited,           \* time spent in the current wait
    wait_result,      \* how the last wait_for_status returned
    config_run,       \* app.config.run
    cell_index,       \* PreviewNotebook.cell_index
    preview_len,      \* len(self.json["cells"])
    tab_active,       \* app.tab == self
    before_subscribed,\* self.before_render is in app.before_render
    after_subscribed, \* self.after_render is in app.after_render
    closed,           \* close() has been called
    config_save,      \* app.config.save
    close_log,        \* what close() did, in order
    rendered,         \* the cell indices rendered, in order
    renders,          \* render cycles of the app so far
    last_fetch,       \* the last fetch of the current cell
    ran_after_close   \* TRUE iff a cell was run after close()

sel_vars == <<num_cells, notebook, selected_slice, last_cmd, prev_slice,
              prev_cmd, prev2_slice, run_base, run_len, run_flips>>

comm_vars == <<comms, comm_count, received, raised, prev_comms, comm_log>>

kernel_vars == <<confirm_available, dialog_open, requests, shown, confirmed,
                 restarts, interrupts>>

cmd_vars == <<kernel_tab, last_call, cmd_error, cmd_count>>

CommandsIdle ==
    /\ kernel_tab = FALSE
    /\ last_call = "none"
    /\ cmd_error = FALSE
    /\ cmd_count = 0

change_vars == <<no_kernels_dialog, change_kernel_dialog, kernel_current,
                 surface_specs, notices, ck_calls, ck_event>>

NoChangeEvent ==
    [startup |-> FALSE, specs |-> {}, notice |-> FALSE, changed |-> "none",
     surface |-> {}, raised |-> FALSE, notices_before |-> 0]

ChangeIdle ==
    /\ no_kernels_dialog = FALSE
    /\ change_kernel_dialog = FALSE
    /\ kernel_current = "none"
    /\ surface_specs = {}
    /\ notices = 0
    /\ ck_calls = 0
    /\ ck_event = NoChangeEvent

md_vars == <<metadata, default_kernel_name, md_prev, md_op, md_value, md_count>>

MetadataIdle ==
    /\ metadata = [k \in {} |-> 0]
    /\ default_kernel_name = "python3"
    /\ md_prev = [k \in {} |-> 0]
    /\ md_op = "none"
    /\ md_value = "none"
    /\ md_count = 0

log_vars == <<maxlen, queue, emitted, hooks, hook_id, invoked, emit_raised,
             log_op>>

NoLogOp == [op |-> "none", id |-> -1]

LogIdle ==
    /\ maxlen = 1
    /\ queue = <<>>
    /\ emitted = 0
    /\ hooks = [k \in {} |-> 0]
    /\ hook_id = 0
    /\ invoked = <<>>
    /\ emit_raised = "none"
    /\ log_op = NoLogOp

session_vars == <<pending, next_request, fired, replied, deliveries, reply_event>>

NoReplyEvent ==
    [id |-> -1, before |-> [k \in {} |-> 0], invoked |-> {},
     after |-> [k \in {} |-> 0]]

SessionIdle ==
    /\ pending = [k \in {} |-> 0]
    /\ next_request = 0
    /\ fired = [k \in {} |-> 0]
    /\ replied = {}
    /\ deliveries = 0
    /\ reply_event = NoReplyEvent

wait_vars == <<status, wait_pc, waited, wait_result, config_run, cell_index,
               preview_len, tab_active, before_subscribed, after_subscribed,
               closed, config_save, close_log, rendered, renders, last_fetch,
               ran_after_close>>

NoFetch == [where |-> "none", index |-> 0, raised |-> FALSE]

WaitIdle ==
    /\ status = "unknown"
    /\ wait_pc = "ready"
    /\ waited = 0
    /\ wait_result = "none"
    /\ config_run = FALSE
    /\ cell_index = 0
    /\ preview_len = 1
    /\ tab_active = FALSE
    /\ before_subscribed = TRUE
    /\ after_subscribed = TRUE
    /\ closed = FALSE
    /\ config_save = FALSE
    /\ close_log = <<>>
    /\ rendered = <<>>
    /\ renders = 0
    /\ last_fetch = NoFetch
    /\ ran_after_close = FALSE

\* the components other than the metadata, the log, the session and the wait
not_md_vars == <<log_vars, session_vars, wait_vars>>

NotMdIdle ==
    /\ LogIdle
    /\ SessionIdle
    /\ WaitIdle

not_log_vars == <<md_vars, session_vars, wait_vars>>

NotLogIdle ==
    /\ MetadataIdle
    /\ SessionIdle
    /\ WaitIdle

not_session_vars == <<md_vars, log_vars, wait_vars>>

NotSessionIdle ==
    /\ MetadataIdle
    /\ LogIdle
    /\ WaitIdle

not_wait_vars == <<md_vars, log_vars, session_vars>>

NotWaitIdle ==
    /\ MetadataIdle
    /\ LogIdle
    /\ SessionIdle

more_vars == <<md_vars, log_vars, session_vars, wait_vars>>

MoreIdle ==
    /\ MetadataIdle
    /\ LogIdle
    /\ SessionIdle
    /\ WaitIdle

ext_vars == <<cmd_vars, change_vars, more_vars>>

ExtIdle ==
    /\ CommandsIdle
    /\ ChangeIdle
    /\ MoreIdle

vars == <<sel_vars, comm_vars, kernel_vars, ext_vars>>

\* ------------------------------------------------- selection: pure commands
Slice(start, stop, step) == [start |-> start, stop |-> stop, step |-> step]

\* a select-first that moves start to 0 and keeps the stop of the old range
select_first_cell_keep_stop(s, n) == Slice(0, s.stop, 0)

\* nb.page._set_selected_slice(slice(0, 1), force=True, scroll=True)
select_first_cell(s, n) == Slice(0, 1, 0)

select_5th_previous_cell(s, n) == Slice(s.start - 5, s.start - 5 + 1, 0)

\* a move-up that lowers start and keeps the stop of the old range
select_previous_cell_keep_stop(s, n) == Slice(s.start - 1, s.stop, 0)

select_previous_cell(s, n) == Slice(s.start - 1, s.start, 0)

\* a flip test that compares start + 1 where the code compares start - 1
extend_up_flips_plus(s) == s.start + 1 = s.stop

\* the condition of the anchor-flip branch of extend_cell_selection_up
extend_up_flips(s) == s.start - 1 = s.stop

\* an extend-up that moves the far edge where the code moves the near edge
extend_cell_selection_up_far(s, n) ==
    IF extend_up_flips(s)
    THEN Slice(s.stop, s.start + 1, 1)
    ELSE Slice(s.start, s.stop - 1, s.step)

\* an extend-up whose flip branch stops at the old start
extend_cell_selection_up_short(s, n) ==
    IF extend_up_flips(s)
    THEN Slice(s.stop, s.start, 1)
    ELSE Slice(s.start - 1, s.stop, s.step)

extend_cell_selection_up(s, n) ==
    IF extend_up_flips(s)
    THEN Slice(s.stop, s.start + 1, 1)
    ELSE Slice(s.start - 1, s.stop, s.step)

\* the condition of the anchor-flip branch of extend_cell_selection_down
extend_down_flips(s) == s.start + 1 = s.stop

\* an extend-down whose flip branch is copied from extend-up: start + 1
extend_cell_selection_down_copied(s, n) ==
    IF extend_down_flips(s)
    THEN Slice(s.stop, s.start + 1, -1)
    ELSE Slice(s.start + 1, s.stop, s.step)

\* an extend-down whose flip branch keeps the step of the old range
extend_cell_selection_down_keep_step(s, n) ==
    IF extend_down_flips(s)
    THEN Slice(s.stop, s.start - 1, s.step)
    ELSE Slice(s.start + 1, s.stop, s.step)

extend_cell_selection_down(s, n) ==
    IF extend_down_flips(s)
    THEN Slice(s.stop, s.start - 1, -1)
    ELSE Slice(s.start + 1, s.stop, s.step)

next_child(s, n) == Slice(s.start + 1, s.start + 1 + 1, 0)

select_5th_next_cell(s, n) == Slice(s.start + 5, s.start + 5 + 1, 0)

\* a select-last that takes the last valid index, len(children) - 1
select_last_cell_valid(s, n) == Slice(n - 1, n, 0)

select_last_cell(s, n) == Slice(n, n + 1, 0)

\* a select-all that stops at len(children)
select_all_cells_len(s, n) == Slice(0, n, 0)

select_all_cells(s, n) == Slice(0, n + 1, 0)

\* The setter of page.selected_slice: the state machine keeps the intended
\* range as computed (negative starts included).
set_selected_slice(new) == new

\* Clamping to [0, N), the separate normalisation applied when a range is
\* resolved to a concrete cell index.
clamp_index(i, n) ==
    IF i > n - 1 THEN (IF n - 1 < 0 THEN 0 ELSE n - 1)
    ELSE IF i < 0 THEN 0 ELSE i

\* the indices a range covers, in the order of its direction
slice_indices(s) ==
    IF s.stop > s.start THEN s.start .. (s.stop - 1) ELSE (s.stop + 1) .. s.start

\* the cells a range addresses once it is resolved
resolved_cells(s, n) == {clamp_index(i, n) : i \in slice_indices(s)}

\* ------------------------------------------------------ selection: actions
InBounds(s, n) ==
    /\ s.start >= 0 - MaxOver /\ s.start <= n + 1 + MaxOver
    /\ s.stop >= 0 - MaxOver /\ s.stop <= n + 1 + MaxOver

\* One invocation of a notebook command: `new` is the slice the command
\* hands to the page, `flip` tells whether it took an anchor-flip branch.
Command(cmd, new, flip) ==
    /\ (last_cmd = cmd) => run_len < MaxRun
    /\ notebook => InBounds(new, num_cells)
    /\ selected_slice' = IF notebook THEN set_selected_slice(new) ELSE selected_slice
    /\ last_cmd' = cmd
    /\ prev_slice' = selected_slice
    /\ prev_cmd' = last_cmd
    /\ prev2_slice' = prev_slice
    /\ run_base' = IF last_cmd = cmd THEN run_base ELSE selected_slice
    /\ run_len' = IF last_cmd = cmd THEN run_len + 1 ELSE 1
    /\ run_flips' = (IF last_cmd = cmd THEN run_flips ELSE 0)
                    + (IF notebook /\ flip THEN 1 ELSE 0)
    /\ UNCHANGED <<num_cells, notebook, comm_vars, kernel_vars, ext_vars>>

SelectFirstCell ==
    Command("select_first_cell", select_first_cell(selected_slice, num_cells), FALSE)

Select5thPreviousCell ==
    Command("select_5th_previous_cell",
            select_5th_previous_cell(selected_slice, num_cells), FALSE)

SelectPreviousCell ==
    Command("select_previous_cell",
            select_previous_cell(selected_slice, num_cells), FALSE)

ExtendCellSelectionUp ==
    Command("extend_cell_selection_up",
            extend_cell_selection_up(selected_slice, num_cells),
            extend_up_flips(selected_slice))

ExtendCellSelectionDown ==
    Command("extend_cell_selection_down",
            extend_cell_selection_down(selected_slice, num_cells),
            extend_down_flips(selected_slice))

NextChild ==
    Command("next_child", next_child(selected_slice, num_cells), FALSE)

Select5thNextCell ==
    Command("select_5th_next_cell",
            select_5th_next_cell(selected_slice, num_cells), FALSE)

SelectLastCell ==
    Command("select_last_cell", select_last_cell(selected_slice, num_cells), FALSE)

SelectAllCells ==
    Command("select_all_cells", select_all_cells(selected_slice, num_cells), FALSE)

EmptyRegistry == [k \in {} |-> 0]

SelectionIdle ==
    /\ num_cells = 0
    /\ notebook = FALSE
    /\ selected_slice = Slice(0, 1, 0)
    /\ last_cmd = "none"
    /\ prev_slice = Slice(0, 1, 0)
    /\ prev_cmd = "none"
    /\ prev2_slice = Slice(0, 1, 0)
    /\ run_base = Slice(0, 1, 0)
    /\ run_len = 0
    /\ run_flips = 0

CommIdle ==
    /\ comms = EmptyRegistry
    /\ comm_count = 0
    /\ received = EmptyRegistry
    /\ raised = FALSE
    /\ prev_comms = EmptyRegistry
    /\ comm_log = <<>>

KernelIdle ==
    /\ confirm_available = FALSE
    /\ dialog_open = FALSE
    /\ requests = 0
    /\ shown = 0
    /\ confirmed = 0
    /\ restarts = 0
    /\ interrupts = 0

InitSelection ==
    /\ num_cells \in 0..MaxCells
    /\ notebook \in BOOLEAN
    /\ selected_slice = Slice(0, 1, 0)
    /\ last_cmd = "none"
    /\ prev_slice = Slice(0, 1, 0)
    /\ prev_cmd = "none"
    /\ prev2_slice = Slice(0, 1, 0)
    /\ run_base = Slice(0, 1, 0)
    /\ run_len = 0
    /\ run_flips = 0
    /\ CommIdle
    /\ KernelIdle
    /\ ExtIdle

NextSelection ==
    \/ SelectFirstCell
    \/ Select5thPreviousCell
    \/ SelectPreviousCell
    \/ ExtendCellSelectionUp
    \/ ExtendCellSelectionDown
    \/ NextChild
    \/ Select5thNextCell
    \/ SelectLastCell
    \/ SelectAllCells

SpecSelection == InitSelection /\ [][NextSelection]_vars

\* ------------------------------------------------------- selection: claims
Pair(s) == <<s.start, s.stop>>

\* a range whose cells all exist: every index it covers is a cell index
ValidSelection(s, n) ==
    /\ s.start # s.stop
    /\ slice_indices(s) \subseteq 0 .. (n - 1)

SingleCell(s) == s.stop = s.start + 1

\* move-down then move-up has just been applied to a valid selection, and the
\* intermediate range is a cell too (no clamping boundary is crossed)
MovedDownThenUp ==
    /\ notebook
    /\ prev_cmd = "next_child"
    /\ last_cmd = "select_previous_cell"
    /\ ValidSelection(prev2_slice, num_cells)
    /\ prev2_slice.start + 1 <= num_cells - 1

\* C5 as stated: move-down then move-up returns every valid selection to its
\* original (start, stop) when no clamping boundary is crossed.
C5_Original == MovedDownThenUp => Pair(selected_slice) = Pair(prev2_slice)

\* C5 amended: move-down then move-up yields (start, start + 1), which is the
\* original (start, stop) exactly when the original selects a single cell.
C5_MoveDownUp ==
    MovedDownThenUp =>
        /\ Pair(selected_slice) = <<prev2_slice.start, prev2_slice.start + 1>>
        /\ (Pair(selected_slice) = Pair(prev2_slice)) <=> SingleCell(prev2_slice)

C5_Witness ==
    /\ MovedDownThenUp
    /\ SingleCell(prev2_slice)
    /\ prev2_slice.start > 0
    /\ selected_slice = prev2_slice

\* a run of extend-up commands applied to a single-cell selection (k, k+1)
ExtendUpRun ==
    /\ notebook
    /\ last_cmd = "extend_cell_selection_up"
    /\ SingleCell(run_base)

\* C6 as stated: repeated extend-up from (k, k+1) flips the anchor exactly
\* once; a run of MaxRun extend-ups that starts on a cell and stays inside the
\* notebook therefore holds exactly one flip.
C6_Original ==
    (/\ ExtendUpRun
     /\ run_len = MaxRun
     /\ ValidSelection(run_base, num_cells)
     /\ selected_slice.start >= 0) => run_flips = 1

\* C6 amended: repeated extend-up from (k, k+1) lowers start by one at each
\* step and leaves stop at k+1; the flip condition start-1 = stop never holds
\* on the way, so the anchor never flips.
C6_ExtendUpRun ==
    ExtendUpRun =>
        /\ selected_slice = Slice(run_base.start - run_len, run_base.stop, run_base.step)
        /\ run_flips = 0
        /\ ~extend_up_flips(selected_slice)

C6_Witness ==
    /\ ExtendUpRun
    /\ run_len = MaxRun
    /\ run_base.start > MaxRun

\* the scenario's run: N = 10, select-last has given (10, 11), then extend-up
ScenarioRun ==
    /\ notebook
    /\ num_cells = 10
    /\ last_cmd = "extend_cell_selection_up"
    /\ run_base = Slice(10, 11, 0)

\* select-last applied to the start state (0, 1) of the scenario
ScenarioSelectLast ==
    /\ notebook
    /\ num_cells = 10
    /\ last_cmd = "select_last_cell"
    /\ prev_slice = Slice(0, 1, 0)

\* C7 as stated: with N = 10, select-last from (0, 1) yields (10, 11) and the
\* selection is (9, 11) after the first two extend-up steps.
C7_Original ==
    /\ ScenarioSelectLast => Pair(selected_slice) = <<10, 11>>
    /\ (ScenarioRun /\ run_len = 2) => Pair(selected_slice) = <<9, 11>>

\* C7 amended: with N = 10, select-last from (0, 1) yields (10, 11); the five
\* extend-up steps then give (9, 11), (8, 11), (7, 11), (6, 11), (5, 11): the
\* low edge grows by one per step and no step flips the anchor.
C7_Scenario ==
    /\ ScenarioSelectLast => Pair(selected_slice) = <<10, 11>>
    /\ ScenarioRun =>
        /\ Pair(selected_slice) = <<10 - run_len, 11>>
        /\ run_len = 1 => Pair(selected_slice) = <<9, 11>>
        /\ run_len = 2 => Pair(selected_slice) = <<8, 11>>
        /\ run_len = 5 => Pair(selected_slice) = <<5, 11>>
        /\ run_flips = 0

C7_Witness ==
    /\ ScenarioRun
    /\ run_len = 5
    /\ prev_cmd = "extend_cell_selection_up"
    /\ Pair(selected_slice) = <<5, 11>>

AbsoluteCommands == {"select_first_cell", "select_last_cell", "select_all_cells"}

DownCommands == {"next_child", "select_5th_next_cell", "extend_cell_selection_down"}

\* C8 as stated: after any sequence of navigation commands the selection has
\* start >= 0 and addresses no cell outside [0, N); stated here for the
\* notebooks that have cells (N > 0).
C8_Original ==
    (notebook /\ num_cells > 0) =>
        /\ selected_slice.start >= 0
        /\ resolved_cells(selected_slice, num_cells) \subseteq 0 .. (num_cells - 1)

\* C8 amended: select-first, select-last and select-all store a start >= 0 and
\* move-down, page-down and extend-down never lower start; move-up, page-up
\* and extend-up store the start they compute, unclamped, so only they can
\* make it negative.  The cells addressed after clamping are >= 0 and, when
\* N > 0, lie in [0, N).
C8_StartOnlyLoweredByUp ==
    notebook =>
        /\ last_cmd \in AbsoluteCommands => selected_slice.start >= 0
        /\ last_cmd \in DownCommands => selected_slice.start >= prev_slice.start
        /\ last_cmd = "select_previous_cell" => selected_slice.start = prev_slice.start - 1
        /\ last_cmd = "select_5th_previous_cell" => selected_slice.start = prev_slice.start - 5
        /\ last_cmd = "extend_cell_selection_up" => selected_slice.start = prev_slice.start - 1
        /\ \A c \in resolved_cells(selected_slice, num_cells) : c >= 0
        /\ num_cells > 0 => resolved_cells(selected_slice, num_cells) \subseteq 0 .. (num_cells - 1)

C8_Witness ==
    /\ notebook
    /\ num_cells > 0
    /\ last_cmd = "select_previous_cell"
    /\ prev_slice.start = 0
    /\ selected_slice.start = -1
    /\ resolved_cells(selected_slice, num_cells) = {0}

\* C9: with no cells (N = 0) every navigation command leaves the selection
\* unchanged.
C9_EmptyNotebookNoOp ==
    (notebook /\ num_cells = 0 /\ last_cmd # "none") => selected_slice = prev_slice

\* C10: for every N and every prior selection, select-last sets the selection
\* to (N, N+1) and select-all sets it to (0, N+1).
C10_SelectLastAll ==
    notebook =>
        /\ last_cmd = "select_last_cell" => Pair(selected_slice) = <<num_cells, num_cells + 1>>
        /\ last_cmd = "select_all_cells" => Pair(selected_slice) = <<0, num_cells + 1>>

C10_Witness ==
    /\ notebook
    /\ num_cells > 1
    /\ last_cmd = "select_all_cells"
    /\ prev_cmd = "select_last_cell"
    /\ Pair(prev_slice) = <<num_cells, num_cells + 1>>
    /\ Pair(prev2_slice) # <<0, 1>>
    /\ Pair(selected_slice) = <<0, num_cells + 1>>

\* ------------------------------------------------------------ comm registry
\* A value of content.get("comm_id"): a Python str, an int, or None when the
\* envelope has no comm_id.  v is the text str() prints for the value.
StrId(text) == [t |-> "str", v |-> text]

NoCommId == [t |-> "none", v |-> "None"]

IntId(text) == [t |-> "int", v |-> text]

CommIdValues == {StrId("a"), NoCommId, IntId("7")}

\* Python's str(x): a str whose text is what x prints as
py_str(x) == StrId(x.v)

\* open_comm(comm_container, content, buffers): constructs a comm instance.
\* Instances are numbered in the order of their construction.
open_comm(count) == count + 1

\* a comm_open that keeps the comm already stored under the key
comm_open_keep(reg, cid, inst) ==
    LET key == py_str(cid) IN
    [k \in DOMAIN reg \cup {key} |-> IF k \in DOMAIN reg THEN reg[k] ELSE inst]

\* self.comms[str(content.get("comm_id"))] = open_comm(...)
comm_open(reg, cid, inst) ==
    LET key == py_str(cid) IN
    [k \in DOMAIN reg \cup {key} |-> IF k = key THEN inst ELSE reg[k]]

\* the comm that comm_msg calls process_data on: self.comms.get(str(comm_id)),
\* 0 when there is none
comm_msg(reg, cid) ==
    LET key == py_str(cid) IN
    IF key \in DOMAIN reg THEN reg[key] ELSE 0

\* a comm_close that deletes without testing membership: del of a missing key
\* raises KeyError
comm_close_raises_unguarded(reg, cid) == cid \notin DOMAIN reg

\* whether comm_close raises: the del is guarded by `comm_id in self.comms`
comm_close_raises(reg, cid) == FALSE

\* a comm_close that never deletes
comm_close_keep(reg, cid) == reg

\* comm_id = content.get("comm_id"); if comm_id in self.comms: del ...
comm_close(reg, cid) ==
    IF cid \in DOMAIN reg
    THEN [k \in DOMAIN reg \ {cid} |-> reg[k]]
    ELSE reg

Lookup(reg, key) == IF key \in DOMAIN reg THEN reg[key] ELSE 0

\* one line of the log of handler calls: the handler, the comm_id of its
\* content, the registry size before the call, the instance stored before the
\* call under the key the handler resolves (0: none), the instance the call
\* constructed (0: none), the instance it called process_data on (0: none)
\* and whether the call raised
Event(op, cid, key, made, target, exc) ==
    [op |-> op, cid |-> cid, size |-> Cardinality(DOMAIN comms),
     inst |-> Lookup(comms, key), made |-> made, target |-> target,
     raised |-> exc]

Logged(e) ==
    comm_log' = IF Len(comm_log) < 3 THEN Append(comm_log, e)
                ELSE Append(Tail(comm_log), e)

TotalReceived == LET S == DOMAIN received IN
    IF S = {} THEN 0
    ELSE LET sum[n \in 0..comm_count] ==
                 IF n = 0 THEN 0 ELSE sum[n - 1] + received[n]
         IN sum[comm_count]

CommOpen(cid) ==
    /\ comm_count < MaxOpens
    /\ LET inst == open_comm(comm_count) IN
        /\ comm_count' = inst
        /\ comms' = comm_open(comms, cid, inst)
        /\ received' = [i \in DOMAIN received \cup {inst} |->
                            IF i = inst THEN 0 ELSE received[i]]
        /\ Logged(Event("comm_open", cid, py_str(cid), inst, 0, FALSE))
    /\ raised' = FALSE
    /\ prev_comms' = comms
    /\ UNCHANGED <<sel_vars, kernel_vars, ext_vars>>

CommMsg(cid) ==
    LET target == comm_msg(comms, cid) IN
    /\ target # 0 => TotalReceived < MaxMsgs
    /\ received' = IF target # 0
                   THEN [received EXCEPT ![target] = @ + 1]
                   ELSE received
    /\ Logged(Event("comm_msg", cid, py_str(cid), 0, target, FALSE))
    /\ raised' = FALSE
    /\ prev_comms' = comms
    /\ UNCHANGED <<comms, comm_count, sel_vars, kernel_vars, ext_vars>>

CommClose(cid) ==
    /\ raised' = comm_close_raises(comms, cid)
    /\ comms' = IF raised' THEN comms ELSE comm_close(comms, cid)
    /\ Logged(Event("comm_close", cid, cid, 0, 0, raised'))
    /\ prev_comms' = comms
    /\ UNCHANGED <<comm_count, received, sel_vars, kernel_vars, ext_vars>>

InitComm ==
    /\ CommIdle
    /\ SelectionIdle
    /\ KernelIdle
    /\ ExtIdle

NextComm ==
    \/ \E cid \in CommIdValues : CommOpen(cid)
    \/ \E cid \in CommIdValues : CommMsg(cid)
    \/ \E cid \in CommIdValues : CommClose(cid)

SpecComm == InitComm /\ [][NextComm]_vars

\* ---------------------------------------------------- comm registry: claims
Range(f) == {f[k] : k \in DOMAIN f}

Size(reg) == Cardinality(DOMAIN reg)

\* the last three handler calls were comm_open(id), comm_close(id) and
\* comm_msg(id) for one string id that was not open before the open
OpenCloseMsg ==
    /\ Len(comm_log) = 3
    /\ comm_log[1].op = "comm_open"
    /\ comm_log[2].op = "comm_close"
    /\ comm_log[3].op = "comm_msg"
    /\ comm_log[1].cid.t = "str"
    /\ comm_log[2].cid = comm_log[1].cid
    /\ comm_log[3].cid = comm_log[1].cid
    /\ comm_log[1].inst = 0

\* C2: for a comm id that is not open beforehand, comm_open(id),
\* comm_close(id), comm_msg(id) delivers the message to no comm, leaves the
\* registry as large as before the open, and raises nothing.
C2_OpenCloseMsg ==
    OpenCloseMsg =>
        /\ comm_log[3].target = 0
        /\ Size(comms) = comm_log[1].size
        /\ comm_log[2].size = comm_log[1].size + 1
        /\ \A k \in 1..3 : ~comm_log[k].raised

C2_Witness ==
    /\ OpenCloseMsg
    /\ comm_log[1].size > 0
    /\ Size(comms) = comm_log[1].size
    /\ comm_log[3].target = 0

\* the k-th logged call is a comm_open for an id that was already open
Reopen(k) ==
    /\ comm_log[k].op = "comm_open"
    /\ comm_log[k].inst # 0

\* C3: comm_open for an id that is already open replaces the stored comm with
\* the new instance: the size is unchanged, the previous instance is out of
\* the registry, and later comm_msg calls for the id reach the new instance
\* and never the previous one.
C3_ReopenReplaces ==
    \A k \in 1..Len(comm_log) :
        Reopen(k) =>
            /\ comm_log[k].made # comm_log[k].inst
            /\ (k = Len(comm_log)) =>
                /\ Size(comms) = comm_log[k].size
                /\ comms[py_str(comm_log[k].cid)] = comm_log[k].made
                /\ comm_log[k].inst \notin Range(comms)
            /\ \A j \in (k + 1)..Len(comm_log) :
                comm_log[j].op = "comm_msg" =>
                    /\ comm_log[j].target # comm_log[k].inst
                    /\ (j = k + 1 /\ py_str(comm_log[j].cid) = py_str(comm_log[k].cid))
                        => comm_log[j].target = comm_log[k].made

C3_Witness ==
    /\ Len(comm_log) = 3
    /\ comm_log[1].op = "comm_msg"
    /\ comm_log[1].target # 0
    /\ Reopen(2)
    /\ comm_log[2].inst = comm_log[1].target
    /\ comm_log[3].op = "comm_msg"
    /\ comm_log[3].target = comm_log[2].made
    /\ received[comm_log[2].inst] = 1
    /\ received[comm_log[2].made] = 1

LastEvent == comm_log[Len(comm_log)]

\* the last call was a comm_msg or a comm_close for which the registry holds
\* no comm: an id that is not open, a second close, a close without comm_id
UnknownComm ==
    /\ Len(comm_log) > 0
    /\ LastEvent.op \in {"comm_msg", "comm_close"}
    /\ LastEvent.inst = 0

\* C4: comm_msg for an id that is not open, comm_close for an id that is not
\* open (a second close included) and comm_close without comm_id leave the
\* registry unchanged, call no comm handler and raise nothing.
C4_UnknownCommDropped ==
    UnknownComm =>
        /\ comms = prev_comms
        /\ LastEvent.target = 0
        /\ ~raised

C4_Witness ==
    /\ Len(comm_log) = 3
    /\ comm_log[2].op = "comm_close"
    /\ comm_log[2].inst # 0
    /\ comm_log[3].op = "comm_close"
    /\ comm_log[3].cid = comm_log[2].cid
    /\ UnknownComm
    /\ comms # EmptyRegistry
    /\ comms = prev_comms

\* ----------------------------------------------------------- kernel restart
\* a restart_kernel that passes cb=self.kernel.restart() and so calls restart
\* at once, dialog or not
restart_called_directly_always(confirm) == TRUE

\* KernelTab.restart_kernel calls self.kernel.restart() itself only when
\* app.dialogs.get("confirm") gives nothing
restart_called_directly(confirm) == ~confirm

\* KernelTab.restart_kernel shows the confirm dialog when there is one
confirm_is_shown(confirm) == confirm

\* one call of KernelTab.restart_kernel: what it does to the kernel and the
\* confirm dialog
RestartKernelCall ==
    /\ requests' = requests + 1
    /\ shown' = IF confirm_is_shown(confirm_available) THEN shown + 1 ELSE shown
    /\ dialog_open' = (dialog_open \/ confirm_is_shown(confirm_available))
    /\ restarts' = IF restart_called_directly(confirm_available)
                   THEN restarts + 1 ELSE restarts
    /\ UNCHANGED <<confirm_available, confirmed, interrupts>>

\* KernelTab.restart_kernel
RestartKernel ==
    /\ requests < MaxRequests
    /\ RestartKernelCall
    /\ UNCHANGED <<sel_vars, comm_vars, ext_vars>>

\* the user accepts the confirm dialog: it calls cb, the kernel's restart
UserConfirms ==
    /\ dialog_open
    /\ dialog_open' = FALSE
    /\ confirmed' = confirmed + 1
    /\ restarts' = restarts + 1
    /\ UNCHANGED <<confirm_available, requests, shown, interrupts, sel_vars, comm_vars, ext_vars>>

\* the user dismisses the confirm dialog: cb is not called
UserCancels ==
    /\ dialog_open
    /\ dialog_open' = FALSE
    /\ UNCHANGED <<confirm_available, requests, shown, confirmed, restarts,
                   interrupts, sel_vars, comm_vars, ext_vars>>

\* one call of KernelTab.interrupt_kernel: straight through to the kernel
InterruptKernelCall ==
    /\ interrupts' = interrupts + 1
    /\ UNCHANGED <<confirm_available, dialog_open, requests, shown, confirmed,
                   restarts>>

\* KernelTab.interrupt_kernel
InterruptKernel ==
    /\ interrupts < MaxRequests
    /\ InterruptKernelCall
    /\ UNCHANGED <<sel_vars, comm_vars, ext_vars>>

InitKernel ==
    /\ confirm_available \in BOOLEAN
    /\ dialog_open = FALSE
    /\ requests = 0
    /\ shown = 0
    /\ confirmed = 0
    /\ restarts = 0
    /\ interrupts = 0
    /\ SelectionIdle
    /\ CommIdle
    /\ ExtIdle

NextKernel ==
    \/ RestartKernel
    \/ UserConfirms
    \/ UserCancels
    \/ InterruptKernel

SpecKernel == InitKernel /\ [][NextKernel]_vars

\* C1: with a confirmation surface, the kernel's restart is never called
\* before the user has confirmed (and never if the user never confirms);
\* without one, restart_kernel calls restart directly.
C1_RestartGated ==
    /\ confirm_available =>
        /\ restarts = confirmed
        /\ shown = requests
        /\ confirmed = 0 => restarts = 0
    /\ ~confirm_available =>
        /\ restarts = requests
        /\ shown = 0
        /\ ~dialog_open

C1_Witness ==
    /\ confirm_available
    /\ requests = 3
    /\ confirmed = 1
    /\ restarts = 1
    /\ dialog_open

\* C11: for all N >= 1 and every prior selection, select-all followed by
\* select-first yields (0, 1); select-first alone always yields (0, 1), so
\* applying it twice equals applying it once.
C11_SelectFirst ==
    (notebook /\ last_cmd = "select_first_cell") =>
        /\ Pair(selected_slice) = <<0, 1>>
        /\ (prev_cmd = "select_first_cell") => selected_slice = prev_slice

C11_Witness ==
    /\ notebook
    /\ num_cells >= 1
    /\ last_cmd = "select_first_cell"
    /\ prev_cmd = "select_all_cells"
    /\ Pair(prev_slice) = <<0, num_cells + 1>>
    /\ Pair(prev2_slice) # <<0, 1>>
    /\ Pair(selected_slice) = <<0, 1>>

\* C12: extend-up maps (start, stop) to (stop, start+1) when start-1 = stop
\* and to (start-1, stop) otherwise; extend-down is its mirror and maps
\* (start, stop) to (stop, start-1) when start+1 = stop and to
\* (start+1, stop) otherwise, for every (start, stop).
C12_ExtendMirror ==
    notebook =>
        /\ last_cmd = "extend_cell_selection_up" =>
            Pair(selected_slice) =
                IF prev_slice.start - 1 = prev_slice.stop
                THEN <<prev_slice.stop, prev_slice.start + 1>>
                ELSE <<prev_slice.start - 1, prev_slice.stop>>
        /\ last_cmd = "extend_cell_selection_down" =>
            Pair(selected_slice) =
                IF prev_slice.start + 1 = prev_slice.stop
                THEN <<prev_slice.stop, prev_slice.start - 1>>
                ELSE <<prev_slice.start + 1, prev_slice.stop>>

C12_Witness ==
    /\ notebook
    /\ last_cmd = "extend_cell_selection_up"
    /\ prev_slice.start - 1 = prev_slice.stop
    /\ Pair(selected_slice) = <<prev_slice.stop, prev_slice.start + 1>>
    /\ prev_cmd = "extend_cell_selection_up"
    /\ prev2_slice.step = -1
    /\ run_flips = 1
    /\ selected_slice.step = 1

\* ------------------------------------------------- KernelTab.change_kernel
KernelSpecNames == {"python3", "julia"}

\* the values of self.kernel.specs: the names of the discoverable specs
KernelSpecChoices == SUBSET KernelSpecNames

\* `startup and "no-kernels" not in self.app.dialogs`
notice_condition(startup, registered) == startup /\ ~registered

\* `startup and len(kernel_specs) == 1`
auto_select_condition(startup, specs) == startup /\ Cardinality(specs) = 1

\* list(kernel_specs)[0] of a one-element mapping: its only key
first_spec(specs) == CHOOSE name \in specs : TRUE

\* what one call of change_kernel does.  self.app.dialogs[key] of a key the
\* mapping does not hold raises KeyError.
change_kernel(specs, startup, registered, surface_registered, seen) ==
    LET base == [startup |-> startup, specs |-> specs, notice |-> FALSE,
                 changed |-> "none", surface |-> {}, raised |-> FALSE,
                 notices_before |-> seen]
    IN  IF specs = {}
        THEN IF notice_condition(startup, registered)
             THEN IF registered
                  THEN [base EXCEPT !.notice = TRUE]
                  ELSE [base EXCEPT !.raised = TRUE]
             ELSE base
        ELSE IF auto_select_condition(startup, specs)
             THEN [base EXCEPT !.changed = first_spec(specs)]
             ELSE IF surface_registered
                  THEN [base EXCEPT !.surface = specs]
                  ELSE [base EXCEPT !.raised = TRUE]

\* one call of KernelTab.change_kernel(startup=startup) that finds specs in
\* kernel.specs
ChangeKernelCall(specs, startup) ==
    LET e == change_kernel(specs, startup, no_kernels_dialog,
                           change_kernel_dialog, notices) IN
    /\ ck_calls' = ck_calls + 1
    /\ ck_event' = e
    /\ notices' = IF e.notice THEN notices + 1 ELSE notices
    /\ kernel_current' = IF e.changed # "none" THEN e.changed ELSE kernel_current
    /\ surface_specs' = IF e.surface # {} THEN e.surface ELSE surface_specs
    /\ UNCHANGED <<no_kernels_dialog, change_kernel_dialog>>

ChangeKernel(specs, startup) ==
    /\ ck_calls < MaxRequests
    /\ ChangeKernelCall(specs, startup)
    /\ UNCHANGED <<sel_vars, comm_vars, kernel_vars, cmd_vars, more_vars>>

\* the user picks a kernel in the change-kernel dialog
UserSelectsKernel ==
    /\ surface_specs # {}
    /\ \E name \in surface_specs : kernel_current' = name
    /\ surface_specs' = {}
    /\ UNCHANGED <<no_kernels_dialog, change_kernel_dialog, notices, ck_calls,
                   ck_event, sel_vars,
                   comm_vars, kernel_vars, cmd_vars,
                   more_vars>>

\* the user closes the change-kernel dialog
UserClosesSurface ==
    /\ surface_specs # {}
    /\ surface_specs' = {}
    /\ UNCHANGED <<no_kernels_dialog, change_kernel_dialog, kernel_current,
                   notices, ck_calls, ck_event, sel_vars, comm_vars, kernel_vars, cmd_vars,
                   more_vars>>

InitChange ==
    /\ no_kernels_dialog \in BOOLEAN
    /\ change_kernel_dialog \in BOOLEAN
    /\ kernel_current = "none"
    /\ surface_specs = {}
    /\ notices = 0
    /\ ck_calls = 0
    /\ ck_event = NoChangeEvent
    /\ SelectionIdle
    /\ CommIdle
    /\ KernelIdle
    /\ CommandsIdle
    /\ MoreIdle

NextChange ==
    \/ \E specs \in KernelSpecChoices, startup \in BOOLEAN : ChangeKernel(specs, startup)
    \/ UserSelectsKernel
    \/ UserClosesSurface

SpecChange == InitChange /\ [][NextChange]_vars

\* the last change_kernel call found no kernel specs
NoSpecsCall == ck_calls > 0 /\ ck_event.specs = {}

\* C14: change_kernel with no discoverable specs surfaces the "no kernels
\* available" notice, on startup only the first time and on every
\* user-initiated call, and never changes the kernel, opens the selection
\* surface or raises.
C14_NoKernelsNotice ==
    NoSpecsCall =>
        /\ ~ck_event.startup => ck_event.notice
        /\ ck_event.startup => (ck_event.notice <=> ck_event.notices_before = 0)
        /\ ck_event.changed = "none"
        /\ ck_event.surface = {}
        /\ ~ck_event.raised

\* the last change_kernel call found at least one kernel spec
SomeSpecsCall == ck_calls > 0 /\ ck_event.specs # {}

\* C15: with at least one spec, a startup call that finds exactly one spec
\* selects it on the kernel and shows no selection surface; every other call
\* shows the selection surface with the specs and changes no kernel.
C15_SelectOrPrompt ==
    SomeSpecsCall =>
        /\ ~ck_event.raised
        /\ ~ck_event.notice
        /\ IF ck_event.startup /\ Cardinality(ck_event.specs) = 1
           THEN /\ ck_event.specs = {ck_event.changed}
                /\ ck_event.surface = {}
           ELSE /\ ck_event.surface = ck_event.specs
                /\ ck_event.changed = "none"

\* ------------------------------------------- dispatch of notebook commands
\* a command body that uses nb without testing it
has_notebook_unchecked(nb) == TRUE

\* `nb = get_app().notebook` followed by `if nb is not None:`
has_notebook(nb) == nb

\* the commands of commands/notebook.py that call one method of the notebook
\* (or of its page), and the call each makes
MethodOf ==
    [c \in {"save_notebook", "run_selected_cells",
            "run_selected_cells_and_select_next_cell",
            "run_cell_and_insert_below", "run_all_cells", "add_cell_above",
            "add_cell_below", "delete_cells", "cut_cells", "copy_cells",
            "paste_cells", "merge_cells", "interrupt_kernel", "restart_kernel",
            "change_kernel", "scroll_up", "scroll_down", "scroll_up_5_lines",
            "scroll_down_5_lines", "reformat_notebook"} |->
        CASE c = "save_notebook" -> "save()"
          [] c = "run_selected_cells" -> "run_selected_cells()"
          [] c = "run_selected_cells_and_select_next_cell" -> "run_selected_cells(advance=True)"
          [] c = "run_cell_and_insert_below" -> "run_selected_cells(insert=True)"
          [] c = "run_all_cells" -> "run_all()"
          [] c = "add_cell_above" -> "add_cell_above()"
          [] c = "add_cell_below" -> "add_cell_below()"
          [] c = "delete_cells" -> "delete()"
          [] c = "cut_cells" -> "cut()"
          [] c = "copy_cells" -> "copy()"
          [] c = "paste_cells" -> "paste()"
          [] c = "merge_cells" -> "merge()"
          [] c = "interrupt_kernel" -> "interrupt_kernel()"
          [] c = "restart_kernel" -> "restart_kernel()"
          [] c = "change_kernel" -> "change_kernel()"
          [] c = "scroll_up" -> "page.scroll(1)"
          [] c = "scroll_down" -> "page.scroll(-1)"
          [] c = "scroll_up_5_lines" -> "page.scroll(5)"
          [] c = "scroll_down_5_lines" -> "page.scroll(-5)"
          [] OTHER -> "reformat()"]

NavigationCommands ==
    {"select_first_cell", "select_5th_previous_cell", "select_previous_cell",
     "extend_cell_selection_up", "extend_cell_selection_down", "next_child",
     "select_5th_next_cell", "select_last_cell", "select_all_cells"}

NotebookCommands == NavigationCommands \cup DOMAIN MethodOf

MaxCommands == 2

\* The method a command calls on the notebook, run as part of the command:
\* restart_kernel, interrupt_kernel and change_kernel are methods of
\* KernelTab; the command calls change_kernel without startup, and a KeyError
\* it raises leaves the command.
MethodCall(cmd) ==
    IF cmd = "restart_kernel"
    THEN /\ RestartKernelCall
         /\ cmd_error' = FALSE
         /\ UNCHANGED change_vars
    ELSE IF cmd = "interrupt_kernel"
    THEN /\ InterruptKernelCall
         /\ cmd_error' = FALSE
         /\ UNCHANGED change_vars
    ELSE IF cmd \in {"change_kernel", "_change_kernel"}
    THEN /\ \E specs \in KernelSpecChoices : ChangeKernelCall(specs, FALSE)
         /\ cmd_error' = ck_event'.raised
         /\ UNCHANGED kernel_vars
    ELSE /\ cmd_error' = FALSE
         /\ UNCHANGED <<kernel_vars, change_vars>>

\* One invocation of a command of commands/notebook.py: `new` is the slice a
\* navigation command hands to the page, `call` the method another command
\* calls.  Using nb when it is None raises AttributeError.
Dispatch(cmd, new, call) ==
    /\ cmd_count < MaxCommands
    /\ cmd_count' = cmd_count + 1
    /\ notebook => InBounds(new, num_cells)
    /\ last_cmd' = cmd
    /\ IF has_notebook(notebook)
       THEN IF notebook
            THEN /\ selected_slice' = set_selected_slice(new)
                 /\ last_call' = call
                 /\ MethodCall(cmd)
            ELSE /\ selected_slice' = selected_slice
                 /\ last_call' = "none"
                 /\ cmd_error' = TRUE
                 /\ UNCHANGED <<kernel_vars, change_vars>>
       ELSE /\ selected_slice' = selected_slice
            /\ last_call' = "none"
            /\ cmd_error' = FALSE
            /\ UNCHANGED <<kernel_vars, change_vars>>
    /\ UNCHANGED <<num_cells, notebook, prev_slice, prev_cmd, prev2_slice,
                   run_base, run_len, run_flips, kernel_tab, comm_vars,
                   more_vars>>

\* the new slice of a navigation command
NavigationSlice(cmd, s, n) ==
    CASE cmd = "select_first_cell" -> select_first_cell(s, n)
      [] cmd = "select_5th_previous_cell" -> select_5th_previous_cell(s, n)
      [] cmd = "select_previous_cell" -> select_previous_cell(s, n)
      [] cmd = "extend_cell_selection_up" -> extend_cell_selection_up(s, n)
      [] cmd = "extend_cell_selection_down" -> extend_cell_selection_down(s, n)
      [] cmd = "next_child" -> next_child(s, n)
      [] cmd = "select_5th_next_cell" -> select_5th_next_cell(s, n)
      [] cmd = "select_last_cell" -> select_last_cell(s, n)
      [] OTHER -> select_all_cells(s, n)

NavigationCommand(cmd) ==
    Dispatch(cmd, NavigationSlice(cmd, selected_slice, num_cells), "none")

MethodCommand(cmd) == Dispatch(cmd, selected_slice, MethodOf[cmd])

\* KernelTab._change_kernel: calls change_kernel() of get_app().tab when it
\* is a KernelTab
ChangeKernelOfTab ==
    /\ cmd_count < MaxCommands
    /\ cmd_count' = cmd_count + 1
    /\ last_cmd' = "_change_kernel"
    /\ IF kernel_tab
       THEN /\ last_call' = "change_kernel()"
            /\ MethodCall("_change_kernel")
       ELSE /\ last_call' = "none"
            /\ cmd_error' = FALSE
            /\ UNCHANGED <<kernel_vars, change_vars>>
    /\ UNCHANGED <<num_cells, notebook, selected_slice, prev_slice, prev_cmd,
                   prev2_slice, run_base, run_len, run_flips, kernel_tab,
                   comm_vars, more_vars>>

\* a notebook is a KernelTab, so an active notebook implies a KernelTab
InitCommands ==
    /\ num_cells \in 0..MaxCells
    /\ notebook \in BOOLEAN
    /\ kernel_tab \in BOOLEAN
    /\ notebook => kernel_tab
    /\ selected_slice = Slice(0, 1, 0)
    /\ last_cmd = "none"
    /\ prev_slice = Slice(0, 1, 0)
    /\ prev_cmd = "none"
    /\ prev2_slice = Slice(0, 1, 0)
    /\ run_base = Slice(0, 1, 0)
    /\ run_len = 0
    /\ run_flips = 0
    /\ last_call = "none"
    /\ cmd_error = FALSE
    /\ cmd_count = 0
    /\ confirm_available \in BOOLEAN
    /\ dialog_open = FALSE
    /\ requests = 0
    /\ shown = 0
    /\ confirmed = 0
    /\ restarts = 0
    /\ interrupts = 0
    /\ no_kernels_dialog \in BOOLEAN
    /\ change_kernel_dialog \in BOOLEAN
    /\ kernel_current = "none"
    /\ surface_specs = {}
    /\ notices = 0
    /\ ck_calls = 0
    /\ ck_event = NoChangeEvent
    /\ CommIdle
    /\ MoreIdle

NextCommands ==
    \/ \E cmd \in NavigationCommands : NavigationCommand(cmd)
    \/ \E cmd \in DOMAIN MethodOf : MethodCommand(cmd)
    \/ ChangeKernelOfTab

SpecCommands == InitCommands /\ [][NextCommands]_vars

\* what a step leaves alone when its command does nothing
CommandNoOp ==
    /\ selected_slice' = selected_slice
    /\ num_cells' = num_cells
    /\ last_call' = "none"
    /\ cmd_error' = FALSE
    /\ UNCHANGED <<comm_vars, kernel_vars, change_vars,
                   more_vars>>

\* C13: when no notebook is active, every notebook command (navigation, run,
\* edit and kernel commands alike) changes no state, calls nothing and raises
\* nothing; _change_kernel does the same when the tab is no KernelTab.
C13_NoNotebookNoOp ==
    [][/\ (~notebook /\ last_cmd' \in NotebookCommands) => CommandNoOp
       /\ (~kernel_tab /\ last_cmd' = "_change_kernel") => CommandNoOp]_vars

C13_Witness ==
    /\ ~notebook
    /\ ~kernel_tab
    /\ last_cmd = "restart_kernel"
    /\ last_call = "none"
    /\ ~cmd_error
    /\ selected_slice = Slice(0, 1, 0)

\* ------------------------------------------------- KernelTab.kernel_name
MetadataKeys == {"kernelspec", "language_info"}

DictKeys == {"name", "display_name"}

\* the dicts a top-level metadata key can hold
Dicts == UNION {[ks -> KernelSpecNames] : ks \in SUBSET DictKeys}

\* the metadata a notebook file can hold
Metadatas == UNION {[ks -> Dicts] : ks \in SUBSET MetadataKeys}

EmptyDict == [k \in {} |-> 0]

\* d[k] = v on a dict
dict_set(d, k, v) == [x \in DOMAIN d \cup {k} |-> IF x = k THEN v ELSE d[x]]

\* d.get(k, default)
dict_get(d, k, default) == IF k \in DOMAIN d THEN d[k] ELSE default

\* the getter: metadata.get("kernelspec", {}).get("name", default)
kernel_name(md, default) ==
    dict_get(dict_get(md, "kernelspec", EmptyDict), "name", default)

\* a setter that stores a fresh kernelspec dict holding the name alone
set_kernel_name_fresh(md, value) ==
    dict_set(md, "kernelspec", dict_set(EmptyDict, "name", value))

\* the setter: metadata.setdefault("kernelspec", {})["name"] = value
set_kernel_name(md, value) ==
    dict_set(md, "kernelspec",
             dict_set(dict_get(md, "kernelspec", EmptyDict), "name", value))

\* metadata["language_info"] = info.get("language_info", {})
set_kernel_info(md, info) ==
    dict_set(md, "language_info", dict_get(info, "language_info", EmptyDict))

\* the kernel-info replies: with and without a language_info entry
KernelInfos ==
    {EmptyDict} \cup {dict_set(EmptyDict, "language_info", d) : d \in Dicts}

SetKernelName(value) ==
    /\ md_count < MaxRequests
    /\ md_count' = md_count + 1
    /\ md_prev' = metadata
    /\ md_op' = "set_kernel_name"
    /\ md_value' = value
    /\ metadata' = set_kernel_name(metadata, value)
    /\ UNCHANGED <<default_kernel_name, sel_vars, comm_vars, kernel_vars,
                   cmd_vars, change_vars, not_md_vars>>

SetKernelInfo(info) ==
    /\ md_count < MaxRequests
    /\ md_count' = md_count + 1
    /\ md_prev' = metadata
    /\ md_op' = "set_kernel_info"
    /\ md_value' = "none"
    /\ metadata' = set_kernel_info(metadata, info)
    /\ UNCHANGED <<default_kernel_name, sel_vars, comm_vars, kernel_vars,
                   cmd_vars, change_vars, not_md_vars>>

InitMetadata ==
    /\ metadata \in Metadatas
    /\ default_kernel_name \in KernelSpecNames
    /\ md_prev = EmptyDict
    /\ md_op = "none"
    /\ md_value = "none"
    /\ md_count = 0
    /\ SelectionIdle
    /\ CommIdle
    /\ KernelIdle
    /\ CommandsIdle
    /\ ChangeIdle
    /\ NotMdIdle

NextMetadata ==
    \/ \E value \in KernelSpecNames : SetKernelName(value)
    \/ \E info \in KernelInfos : SetKernelInfo(info)

SpecMetadata == InitMetadata /\ [][NextMetadata]_vars

\* the kernelspec dict of a metadata ({} when absent)
KernelSpecOf(md) == dict_get(md, "kernelspec", EmptyDict)

\* C16: setting kernel_name changes only the name entry of the kernelspec
\* metadata: every other top-level key and every other kernelspec key keeps
\* its value (and no key is added but kernelspec and name), a following read
\* of kernel_name returns the value set, and with no name present kernel_name
\* reads as the configured default.
C16_SetKernelNameFrame ==
    /\ md_op = "set_kernel_name" =>
        /\ DOMAIN metadata = DOMAIN md_prev \cup {"kernelspec"}
        /\ \A k \in DOMAIN md_prev \ {"kernelspec"} : metadata[k] = md_prev[k]
        /\ DOMAIN KernelSpecOf(metadata) = DOMAIN KernelSpecOf(md_prev) \cup {"name"}
        /\ \A k \in DOMAIN KernelSpecOf(md_prev) \ {"name"} :
               KernelSpecOf(metadata)[k] = KernelSpecOf(md_prev)[k]
        /\ kernel_name(metadata, default_kernel_name) = md_value
    /\ "name" \notin DOMAIN KernelSpecOf(metadata) =>
        kernel_name(metadata, default_kernel_name) = default_kernel_name

C16_Witness ==
    /\ md_op = "set_kernel_name"
    /\ "language_info" \in DOMAIN md_prev
    /\ DOMAIN KernelSpecOf(md_prev) = DictKeys
    /\ KernelSpecOf(md_prev)["name"] # md_value
    /\ md_value # default_kernel_name
    /\ KernelSpecOf(metadata)["display_name"] = KernelSpecOf(md_prev)["display_name"]

\* ------------------------------------------------- log queue and hooks
MaxCapacity == 3

MaxEmits == 8

MaxHooks == 2

\* LogView.levels and LogView.level_colors
levels == <<0, 10, 20, 30, 40, 50, 60>>

level_colors == <<"grey", "blue", "green", "yellow", "red", "red bold">>

\* bisect_right(a, x) of a sorted list: the number of items not above x
bisect_right(a, x) == Cardinality({i \in DOMAIN a : a[i] <= x})

\* the zero-based index LogView.render looks up in level_colors
level_color_index(levelno) ==
    LET i == bisect_right(levels, levelno) - 1 IN IF i > 0 THEN i ELSE 0

\* LogView.render, and so LogView.add_record, raises IndexError when the
\* index is past the end of level_colors
add_record_raises(levelno) == level_color_index(levelno) >= Len(level_colors)

\* the levels of the records emitted: INFO, CRITICAL and one custom level
\* above CRITICAL
LevelNos == {20, 50, 60}

\* the objects handed to hook(): two functions that return, the log tab's
\* add_record, a function that removes itself with unhook(), and an object
\* that is not callable
HookObjects == {"f", "g", "add_record", "unhook_self", "not_callable"}

callable(hook) == hook # "not_callable"

\* an append that keeps every record
deque_append_unbounded(q, x, cap) == Append(q, x)

\* deque(maxlen=cap).append(x): a full deque drops its oldest item
deque_append(q, x, cap) ==
    IF Len(q) >= cap THEN Append(Tail(q), x) ELSE Append(q, x)

\* the keys of hooks, in the order hooks.values() visits them: insertion
\* order, which is ascending id order as ids are handed out ascending
RECURSIVE hook_order(_)
hook_order(ids) ==
    IF ids = {} THEN <<>>
    ELSE LET least == CHOOSE i \in ids : \A j \in ids : i <= j
         IN  <<least>> \o hook_order(ids \ {least})

\* QueueHandler.hook: the new hooks
hook(hs, next_id, fn) ==
    [k \in DOMAIN hs \cup {next_id} |-> IF k = next_id THEN fn ELSE hs[k]]

\* QueueHandler.unhook: the new hooks
unhook(hs, id) ==
    IF id \in DOMAIN hs THEN [k \in DOMAIN hs \ {id} |-> hs[k]] ELSE hs

\* the loop `for hook in hooks.values(): if callable(hook): hook(record)`:
\* the calls it makes, each with the queue the hook finds, the hooks it
\* leaves and the exception that ends it. Nothing catches what a hook
\* raises, so the loop ends at the first hook that raises; a hook that
\* removes an entry of hooks makes the next step of the iteration raise
\* RuntimeError (dictionary changed size during iteration).
RECURSIVE hook_calls(_, _, _, _)
hook_calls(order, hs, q, levelno) ==
    IF order = <<>>
    THEN [calls |-> <<>>, hooks |-> hs, raised |-> "none"]
    ELSE LET id == Head(order)
             call == <<[id |-> id, saw |-> q]>>
         IN  IF ~callable(hs[id])
             THEN hook_calls(Tail(order), hs, q, levelno)
             ELSE IF hs[id] = "add_record" /\ add_record_raises(levelno)
             THEN [calls |-> call, hooks |-> hs, raised |-> "IndexError"]
             ELSE IF hs[id] = "unhook_self"
             THEN [calls |-> call, hooks |-> unhook(hs, id),
                   raised |-> "RuntimeError"]
             ELSE LET rest == hook_calls(Tail(order), hs, q, levelno)
                  IN  [calls |-> call \o rest.calls, hooks |-> rest.hooks,
                       raised |-> rest.raised]

\* QueueHandler.emit: queue the record, then run the hooks
emit(q, hs, record, levelno, cap) ==
    LET q2 == deque_append(q, record, cap)
        run == hook_calls(hook_order(DOMAIN hs), hs, q2, levelno)
    IN  [queue |-> q2, invoked |-> run.calls, hooks |-> run.hooks,
         raised |-> run.raised]

Emit(levelno) ==
    LET e == emit(queue, hooks, emitted + 1, levelno, maxlen) IN
    /\ emitted < MaxEmits
    /\ emitted' = emitted + 1
    /\ queue' = e.queue
    /\ invoked' = e.invoked
    /\ hooks' = e.hooks
    /\ emit_raised' = e.raised
    /\ log_op' = [op |-> "emit", id |-> -1]
    /\ UNCHANGED <<maxlen, hook_id, sel_vars, comm_vars, kernel_vars,
                   cmd_vars, change_vars, not_log_vars>>

Hook(fn) ==
    /\ hook_id < MaxHooks
    /\ hooks' = hook(hooks, hook_id, fn)
    /\ hook_id' = hook_id + 1
    /\ log_op' = [op |-> "hook", id |-> hook_id]
    /\ UNCHANGED <<maxlen, queue, emitted, invoked, emit_raised, sel_vars,
                   comm_vars, kernel_vars, cmd_vars, change_vars,
                   not_log_vars>>

Unhook(id) ==
    /\ hooks' = unhook(hooks, id)
    /\ log_op' = [op |-> "unhook", id |-> id]
    /\ UNCHANGED <<maxlen, queue, emitted, hook_id, invoked, emit_raised,
                   sel_vars, comm_vars, kernel_vars, cmd_vars, change_vars,
                   not_log_vars>>

InitLog ==
    /\ maxlen \in 1..MaxCapacity
    /\ queue = <<>>
    /\ emitted = 0
    /\ hooks = [k \in {} |-> 0]
    /\ hook_id = 0
    /\ invoked = <<>>
    /\ emit_raised = "none"
    /\ log_op = NoLogOp
    /\ SelectionIdle
    /\ CommIdle
    /\ KernelIdle
    /\ CommandsIdle
    /\ ChangeIdle
    /\ NotLogIdle

NextLog ==
    \/ \E levelno \in LevelNos : Emit(levelno)
    \/ \E fn \in HookObjects : Hook(fn)
    \/ \E id \in 0..MaxHooks : Unhook(id)

SpecLog == InitLog /\ [][NextLog]_vars

\* the records k+1 .. n, oldest first
Records(k, n) == [i \in 1..(n - k) |-> k + i]

\* C17: after capacity + k records (k >= 0) the queue holds exactly the most
\* recent `capacity` records in insertion order, the oldest k evicted (before
\* that, every record emitted); the queue is never longer than its capacity.
C17_BoundedFifo ==
    /\ Len(queue) <= maxlen
    /\ emitted >= maxlen => queue = Records(emitted - maxlen, emitted)
    /\ emitted < maxlen => queue = Records(0, emitted)

C17_Witness ==
    /\ maxlen = MaxCapacity
    /\ emitted = maxlen + 5
    /\ Len(queue) = maxlen
    /\ Head(queue) = 6

\* the ids of the calls of the last emit
InvokedIds(calls) == {calls[i].id : i \in DOMAIN calls}

\* each registered hook function in hs is called exactly once in calls, and
\* nothing else is
EachOnce(calls, hs) ==
    /\ InvokedIds(calls) = {id \in DOMAIN hs : callable(hs[id])}
    /\ \A i, j \in DOMAIN calls : calls[i].id = calls[j].id => i = j

\* C18: on every emit each hook function that is registered and not removed
\* is invoked exactly once, with the record already the newest of the queue,
\* whether or not an older record was evicted; no removed hook is invoked;
\* unhook of a registered id removes that hook alone and unhook of an unknown
\* id changes nothing.
C18_HooksOncePerRecord ==
    [][/\ log_op'.op = "emit" =>
           /\ EachOnce(invoked', hooks)
           /\ \A i \in DOMAIN invoked' :
                  /\ invoked'[i].saw = queue'
                  /\ invoked'[i].saw[Len(invoked'[i].saw)] = emitted'
       /\ (log_op'.op = "unhook" /\ log_op'.id \in DOMAIN hooks) =>
           /\ DOMAIN hooks' = DOMAIN hooks \ {log_op'.id}
           /\ \A k \in DOMAIN hooks' : hooks'[k] = hooks[k]
       /\ (log_op'.op = "unhook" /\ log_op'.id \notin DOMAIN hooks) =>
           UNCHANGED <<hooks, hook_id, queue, emitted, invoked>>]_vars

\* ------------------------------------------------- kernel session: replies
MaxSends == 3

MaxReplies == 5

\* send: the request's callback is registered under the request's id
send(pend, id) == [k \in DOMAIN pend \cup {id} |-> IF k = id THEN id ELSE pend[k]]

\* a dispatch that invokes the matching callback and keeps it registered
dispatch_reply_keep(pend, id) ==
    [invoked |-> IF id \in DOMAIN pend THEN {pend[id]} ELSE {},
     pending |-> pend]

\* the dispatch loop on a reply: look up the callback by id, invoke it and
\* discard it; an id with no registered callback is dropped
dispatch_reply(pend, id) ==
    [invoked |-> IF id \in DOMAIN pend THEN {pend[id]} ELSE {},
     pending |-> [k \in DOMAIN pend \ {id} |-> pend[k]]]

Send ==
    /\ next_request < MaxSends
    /\ pending' = send(pending, next_request)
    /\ fired' = [k \in DOMAIN fired \cup {next_request} |->
                    IF k = next_request THEN 0 ELSE fired[k]]
    /\ next_request' = next_request + 1
    /\ UNCHANGED <<replied, deliveries, reply_event, sel_vars, comm_vars,
                   kernel_vars, cmd_vars, change_vars, not_session_vars>>

\* the transport delivers a reply carrying id: any id, sent or not, whether
\* or not a reply for it was delivered before
DeliverReply(id) ==
    LET d == dispatch_reply(pending, id) IN
    /\ deliveries < MaxReplies
    /\ deliveries' = deliveries + 1
    /\ pending' = d.pending
    /\ fired' = [k \in DOMAIN fired |->
                    IF k \in d.invoked THEN fired[k] + 1 ELSE fired[k]]
    /\ replied' = replied \cup ({id} \cap DOMAIN fired)
    /\ reply_event' = [id |-> id, before |-> pending, invoked |-> d.invoked,
                       after |-> d.pending]
    /\ UNCHANGED <<next_request, sel_vars, comm_vars, kernel_vars, cmd_vars,
                   change_vars, not_session_vars>>

InitSession ==
    /\ pending = [k \in {} |-> 0]
    /\ next_request = 0
    /\ fired = [k \in {} |-> 0]
    /\ replied = {}
    /\ deliveries = 0
    /\ reply_event = NoReplyEvent
    /\ SelectionIdle
    /\ CommIdle
    /\ KernelIdle
    /\ CommandsIdle
    /\ ChangeIdle
    /\ NotSessionIdle

NextSession ==
    \/ Send
    \/ \E id \in 0..MaxSends : DeliverReply(id)

SpecSession == InitSession /\ [][NextSession]_vars

\* C19: with replies delivered in any order, the callback of a request is
\* invoked exactly once when its reply has been delivered and not before,
\* never twice, and only by the reply carrying its own id; a reply with an
\* unrecognized id invokes no callback and leaves the pending map unchanged.
C19_ReplyCorrelation ==
    /\ \A id \in DOMAIN fired :
           fired[id] = IF id \in replied THEN 1 ELSE 0
    /\ DOMAIN pending = DOMAIN fired \ replied
    /\ reply_event.invoked \subseteq {reply_event.id}
    /\ reply_event.id \notin DOMAIN reply_event.before =>
           /\ reply_event.invoked = {}
           /\ reply_event.after = reply_event.before

C19_Witness ==
    /\ next_request = 3
    /\ replied = {0, 1, 2}
    /\ \A id \in 0..2 : fired[id] = 1
    /\ reply_event.id = 0
    /\ reply_event.invoked = {0}
    /\ deliveries = MaxReplies

\* ------------------------------------------------- wait_for_status
WaitTimeout == 3

MaxPreviewCells == 3

MaxRenders == 5

Statuses == {"unknown", "starting", "idle", "busy", "dead"}

\* the status before_render waits for
WaitTarget == "idle"

\* a wait with no overall timeout
timed_out_never(elapsed) == FALSE

\* the overall timeout of wait_for_status has expired
timed_out(elapsed) == elapsed >= WaitTimeout

\* get_cell(index): self.json["cells"][index] raises IndexError for an index
\* outside the list
get_cell_raises(index, n) == index >= n \/ index < 0 - n

\* the fetch of the current cell, self.cell(), made at `where`
Fetch(where) ==
    [where |-> where, index |-> cell_index,
     raised |-> get_cell_raises(cell_index, preview_len)]

\* an after_render that advances while cell_index < len(cells)
after_render_past_end(index, n, active) ==
    IF active
    THEN IF index < n
         THEN [cell_index |-> index + 1, close |-> FALSE]
         ELSE [cell_index |-> index, close |-> TRUE]
    ELSE [cell_index |-> index, close |-> FALSE]

\* PreviewNotebook.after_render: the new cell_index and whether the tab is
\* handed to app.close_tab
after_render(index, n, active) ==
    IF active
    THEN IF index < n - 1
         THEN [cell_index |-> index + 1, close |-> FALSE]
         ELSE [cell_index |-> index, close |-> TRUE]
    ELSE [cell_index |-> index, close |-> FALSE]

\* PreviewNotebook.close(cb): what it does, in order.  Only after_render is
\* taken off the app's events.
close(run, save, with_cb) ==
    (IF run /\ save THEN <<"save">> ELSE <<>>)
    \o (IF with_cb THEN <<"cb">> ELSE <<>>)

\* The app starts a render cycle and fires before_render.  The handler of
\* PreviewNotebook.before_render, when subscribed and running, fetches the
\* current cell, runs it, which leaves the kernel in some status, and calls
\* wait_for_status("idle"); the call returns at once when the status is
\* already the target.
BeforeRender ==
    /\ wait_pc = "ready"
    /\ (closed \/ ~tab_active) => renders < MaxRenders
    /\ renders' = renders + 1
    /\ waited' = 0
    /\ IF before_subscribed /\ config_run
       THEN /\ last_fetch' = Fetch("before_render")
            /\ IF last_fetch'.raised
               THEN /\ wait_pc' = "failed"
                    /\ UNCHANGED <<status, wait_result, ran_after_close>>
               ELSE /\ ran_after_close' = (ran_after_close \/ closed)
                    /\ \E s \in Statuses :
                        /\ status' = s
                        /\ IF s = WaitTarget
                           THEN wait_pc' = "render" /\ wait_result' = "immediate"
                           ELSE wait_pc' = "waiting" /\ wait_result' = "none"
       ELSE /\ wait_pc' = "render"
            /\ UNCHANGED <<status, wait_result, last_fetch, ran_after_close>>
    /\ UNCHANGED <<config_run, cell_index, preview_len, tab_active,
                   before_subscribed, after_subscribed, closed, config_save,
                   close_log, rendered, sel_vars, comm_vars,
                   kernel_vars, cmd_vars, change_vars, not_wait_vars>>

\* a status broadcast of the kernel
StatusChanged(s) ==
    /\ s # status
    /\ wait_pc # "failed"
    /\ status' = s
    /\ UNCHANGED <<wait_pc, waited, wait_result, config_run, cell_index,
                   preview_len, tab_active, before_subscribed,
                   after_subscribed, closed, config_save, close_log, rendered,
                   renders, last_fetch, ran_after_close, sel_vars, comm_vars,
                   kernel_vars, cmd_vars, change_vars, not_wait_vars>>

\* time passes while the caller is suspended
Tick ==
    /\ wait_pc = "waiting"
    /\ waited < WaitTimeout
    /\ waited' = waited + 1
    /\ UNCHANGED <<status, wait_pc, wait_result, config_run, cell_index,
                   preview_len, tab_active, before_subscribed,
                   after_subscribed, closed, config_save, close_log, rendered,
                   renders, last_fetch, ran_after_close, sel_vars, comm_vars,
                   kernel_vars, cmd_vars, change_vars, not_wait_vars>>

\* wait_for_status returns: the status is the target, or the timeout expired
WaitReturns ==
    /\ wait_pc = "waiting"
    /\ status = WaitTarget \/ timed_out(waited)
    /\ wait_pc' = "render"
    /\ wait_result' = IF status = WaitTarget THEN "reached" ELSE "unresponsive"
    /\ UNCHANGED <<status, waited, config_run, cell_index, preview_len,
                   tab_active, before_subscribed, after_subscribed, closed,
                   config_save, close_log, rendered, renders, last_fetch,
                   ran_after_close, sel_vars, comm_vars, kernel_vars, cmd_vars,
                   change_vars, not_wait_vars>>

\* The app renders its layout: the container of the active tab is drawn,
\* which evaluates the body `lambda: self.cell()` of load_container.
Render ==
    /\ wait_pc = "render"
    /\ IF tab_active /\ ~closed
       THEN /\ last_fetch' = Fetch("load_container")
            /\ IF last_fetch'.raised
               THEN wait_pc' = "failed" /\ rendered' = rendered
               ELSE wait_pc' = "after" /\ rendered' = Append(rendered, cell_index)
       ELSE /\ wait_pc' = "after"
            /\ UNCHANGED <<last_fetch, rendered>>
    /\ UNCHANGED <<status, waited, wait_result, config_run, cell_index,
                   preview_len, tab_active, before_subscribed,
                   after_subscribed, closed, config_save, close_log, renders,
                   ran_after_close, sel_vars, comm_vars, kernel_vars, cmd_vars,
                   change_vars, not_wait_vars>>

\* The app fires after_render.  The handler of PreviewNotebook.after_render,
\* when subscribed, advances cell_index or hands the tab to app.close_tab,
\* which calls close(cb) with or without a callback.
AfterRender ==
    LET r == after_render(cell_index, preview_len, tab_active) IN
    /\ wait_pc = "after"
    /\ wait_pc' = "ready"
    /\ IF after_subscribed
       THEN /\ cell_index' = r.cell_index
            /\ IF r.close
               THEN /\ closed' = TRUE
                    /\ after_subscribed' = FALSE
                    /\ \E with_cb \in BOOLEAN :
                           close_log' = close_log \o close(config_run, config_save, with_cb)
               ELSE UNCHANGED <<closed, after_subscribed, close_log>>
       ELSE UNCHANGED <<cell_index, closed, after_subscribed, close_log>>
    /\ UNCHANGED <<status, waited, wait_result, config_run, preview_len,
                   tab_active, before_subscribed, config_save, rendered,
                   renders, last_fetch, ran_after_close, sel_vars, comm_vars,
                   kernel_vars, cmd_vars, change_vars, not_wait_vars>>

InitWait ==
    /\ status \in Statuses
    /\ wait_pc = "ready"
    /\ waited = 0
    /\ wait_result = "none"
    /\ config_run \in BOOLEAN
    /\ cell_index = 0
    /\ preview_len \in 0..MaxPreviewCells
    /\ tab_active \in BOOLEAN
    /\ before_subscribed = TRUE
    /\ after_subscribed = TRUE
    /\ closed = FALSE
    /\ config_save \in BOOLEAN
    /\ close_log = <<>>
    /\ rendered = <<>>
    /\ renders = 0
    /\ last_fetch = NoFetch
    /\ ran_after_close = FALSE
    /\ SelectionIdle
    /\ CommIdle
    /\ KernelIdle
    /\ CommandsIdle
    /\ ChangeIdle
    /\ NotWaitIdle

NextWait ==
    \/ BeforeRender
    \/ \E s \in Statuses : StatusChanged(s)
    \/ Tick
    \/ WaitReturns
    \/ Render
    \/ AfterRender

\* time passes, and a caller that can return does
SpecWait ==
    InitWait /\ [][NextWait]_vars /\ WF_vars(Tick) /\ WF_vars(WaitReturns)

\* the same, with rendering that continues: the app keeps starting and
\* finishing render cycles
SpecPreview ==
    /\ InitWait /\ [][NextWait]_vars
    /\ WF_vars(Tick) /\ WF_vars(WaitReturns)
    /\ WF_vars(BeforeRender) /\ WF_vars(Render) /\ WF_vars(AfterRender)

\* C20: wait_for_status returns at once when the status already is the
\* target, so a call only suspends with another status; a suspended call
\* returns only with the target reached or the timeout expired; and every
\* suspended call eventually returns, whatever the kernel does, so the render
\* loop that calls it before each render never stays in it forever.
C20_WaitAlwaysReturns ==
    /\ [][/\ (wait_pc = "ready" /\ wait_pc' = "waiting") => status' # WaitTarget
          /\ (wait_pc = "ready" /\ wait_pc' \notin {"ready", "failed"}
                 /\ before_subscribed /\ config_run /\ status' = WaitTarget) =>
                 (wait_pc' = "render" /\ wait_result' = "immediate")
          /\ (wait_pc = "waiting" /\ wait_pc' # "waiting") =>
                 /\ wait_pc' = "render"
                 /\ status = WaitTarget \/ waited >= WaitTimeout]_vars
    /\ (wait_pc = "waiting") ~> (wait_pc = "render")

C20_Witness ==
    /\ wait_pc = "render"
    /\ wait_result = "unresponsive"
    /\ status = "busy"
    /\ waited = WaitTimeout
    /\ cell_index = 1

\* ------------------------------------------- selection: range shape, anchor
ExtendCommands == {"extend_cell_selection_up", "extend_cell_selection_down"}

\* C21: from the single-cell selection (0, 1), after any sequence of
\* navigation commands with the range stored as computed, the selection is
\* never empty (start # stop), a backward range (stop < start) has step -1
\* and a forward range (stop > start) does not have step -1.
C21_DirectionMatchesStep ==
    /\ selected_slice.start # selected_slice.stop
    /\ selected_slice.stop < selected_slice.start => selected_slice.step = -1
    /\ selected_slice.stop > selected_slice.start => selected_slice.step # -1

C21_Witness ==
    /\ notebook
    /\ last_cmd = "extend_cell_selection_up"
    /\ prev_cmd = "extend_cell_selection_down"
    /\ prev2_slice.step = 1
    /\ prev_slice.step = -1
    /\ prev_slice.stop < prev_slice.start
    /\ selected_slice.step = -1
    /\ selected_slice.start = selected_slice.stop + 1

\* the anchor cell of a range: stop - 1 forward, stop + 1 backward
Anchor(s) == IF s.stop > s.start THEN s.stop - 1 ELSE s.stop + 1

\* the last two commands were the two extend commands, one of each, applied
\* to a selection of the single cell prev2_slice covers
ExtendedBothWays ==
    /\ notebook
    /\ {last_cmd, prev_cmd} = ExtendCommands
    /\ Cardinality(slice_indices(prev2_slice)) = 1

\* C22: an extend command leaves the anchor cell (stop - 1 of a forward
\* range, stop + 1 of a backward one) where it was, flips included; so
\* extend-down then extend-up, or extend-up then extend-down, from a
\* selection of the single cell k selects the cell set {k} again.
C22_AnchorFixed ==
    /\ (notebook /\ last_cmd \in ExtendCommands) =>
           Anchor(selected_slice) = Anchor(prev_slice)
    /\ ExtendedBothWays =>
           slice_indices(selected_slice) = slice_indices(prev2_slice)

C22_Witness ==
    /\ ExtendedBothWays
    /\ last_cmd = "extend_cell_selection_up"
    /\ prev2_slice = Slice(3, 4, 0)
    /\ prev_slice = Slice(4, 2, -1)
    /\ selected_slice = Slice(3, 2, -1)
    /\ Anchor(selected_slice) = 3
    /\ run_flips = 0

\* ------------------------------------------- comm registry: one key per id
\* the last two handler calls were comm_open(content) and comm_close(content)
\* for one content
OpenThenClose ==
    /\ Len(comm_log) >= 2
    /\ comm_log[Len(comm_log) - 1].op = "comm_open"
    /\ comm_log[Len(comm_log)].op = "comm_close"
    /\ comm_log[Len(comm_log) - 1].cid = comm_log[Len(comm_log)].cid

\* C23: comm_open(content) followed by comm_close(content) removes exactly
\* the entry the open created, whatever comm_id the content carries (a
\* string, none, or a value that is not a string): the key the open stored
\* under is gone and every other entry is kept.
C23_CloseRemovesOpened ==
    OpenThenClose =>
        /\ py_str(LastEvent.cid) \notin DOMAIN comms
        /\ DOMAIN comms = DOMAIN prev_comms \ {py_str(LastEvent.cid)}
        /\ \A k \in DOMAIN comms : comms[k] = prev_comms[k]

\* ------------------------------------------------- preview notebook: claims
\* the cell indices 0 .. k-1 in increasing order
FirstCells(k) == [i \in 1..k |-> i - 1]

\* the tab is the active tab and the notebook has at least one cell
ActiveWithCells == tab_active /\ preview_len >= 1

\* C24: in the active tab with at least one cell the render cycles render
\* the cells 0, 1, ..., len(cells)-1 once each in increasing order, with
\* cell_index never decreasing and never above len(cells)-1, and the tab is
\* closed after the render of the last cell and not before, so it is
\* eventually closed when rendering continues; in a tab that is not the
\* active tab cell_index does not change and the tab is not closed.
C24_RendersEachCellOnce ==
    /\ [](ActiveWithCells =>
            /\ rendered = FirstCells(Len(rendered))
            /\ Len(rendered) <= preview_len
            /\ cell_index <= preview_len - 1
            /\ closed => Len(rendered) = preview_len
            /\ (~closed /\ Len(rendered) = preview_len) => wait_pc = "after")
    /\ [][/\ cell_index' >= cell_index
          /\ ~tab_active => (cell_index' = cell_index /\ ~closed')]_vars
    /\ ActiveWithCells ~> closed

C24_Witness ==
    /\ ActiveWithCells
    /\ preview_len = 3
    /\ closed
    /\ rendered = <<0, 1, 2>>
    /\ cell_index = 2
    /\ renders = 3
    /\ config_run

\* C25: whenever the current cell is fetched, in before_render when running
\* or when the container body is evaluated, 0 <= cell_index < len(cells)
\* and the fetch does not raise, for every notebook length, a notebook with
\* no cells included.
C25_FetchInRange ==
    last_fetch.where # "none" =>
        /\ 0 <= last_fetch.index
        /\ last_fetch.index < preview_len
        /\ ~last_fetch.raised

\* C26: after close() neither before_render nor after_render is subscribed
\* to the app's render events, so no later render runs a cell of the closed
\* tab or advances its cell_index; with run and save both configured the
\* notebook is saved before the close callback is called.
C26_CloseUnsubscribes ==
    closed =>
        /\ ~before_subscribed
        /\ ~after_subscribed
        /\ ~ran_after_close
        /\ cell_index = preview_len - 1
        /\ (config_run /\ config_save) =>
               (close_log # <<>> /\ close_log[1] = "save")

====
